---------------------------- MODULE Spec2Model ----------------------------
(***************************************************************************)
(* Course builder: the conversation manager (sessions, message routing,   *)
(* background workers), the run loop of run_course_builder, the review    *)
(* gate engine it drives, the artifact store and the progress log.        *)
(*                                                                         *)
(* Two specifications share the variables:                                 *)
(*   Spec       the conversation manager: API request threads race on a    *)
(*              session, worker threads execute _runner; one call of       *)
(*              run_course_builder is one step of the worker.              *)
(*   EngineSpec one run identifier: run_course_builder and                 *)
(*              resume_after_interrupt advance one streamed item at a      *)
(*              time, a reviewer deposits feedback in between.             *)
(*   StoreSpec  the artifact store on its own: saves, clears and reads.    *)
(*   ApiSpec    the conversation manager with the read endpoints           *)
(*              (get session, progress, artifacts) and session ids whose  *)
(*              first eight characters coincide.                           *)
(***************************************************************************)
EXTENDS Integers, Sequences, FiniteSets, TLC

(***************************************************************************)
(* Bounds                                                                  *)
(***************************************************************************)
MaxRequests == 2

MaxResumes == 2

MaxDeposits == 3

MaxRuns == 1

MaxFaults == 1

MaxSaves == 2

(***************************************************************************)
(* Program constants                                                       *)
(***************************************************************************)
workflow_workers == 2

allow_clear_previous_run == TRUE

None == "None"

\* F applied to the value of x, with x evaluated once
Apply(F(_), x) == CHOOSE y \in { F(v) : v \in { x } } : TRUE

(***************************************************************************)
(* Identifiers.  A session id is a uuid4 string; its first eight           *)
(* characters are the thread id.  A uuid is modelled as <<prefix, rest>>.  *)
(***************************************************************************)
Uuids == { <<"a1b2c3d4", "x">>, <<"e5f6a7b8", "y">> }

\* the session ids of ApiSpec: uuid4 leaves the first eight characters of
\* two ids free to coincide
SessionIds == { << "a1b2c3d4", "x" >>, << "a1b2c3d4", "z" >> }

AllSessionIds == Uuids \cup SessionIds

ThreadIdOf(session_id) == << session_id[1] >>

EngineThread == << "default" >>

ThreadIds == { ThreadIdOf(u) : u \in Uuids } \cup { EngineThread }

(***************************************************************************)
(* Stage registry                                                          *)
(***************************************************************************)
StageOrder ==
  << "collect_user_input", "researcher_agent", "module_structure_agent",
     "human_review_structure", "xdp_agent", "course_content_agent",
     "human_review_content", "quiz_curator_agent", "human_review_quizzes",
     "finalize_course" >>

NumStages == Len(StageOrder)

END == NumStages + 1

Gates == { "structure", "content", "quizzes" }

GateOf(stage) ==
  CASE stage = "human_review_structure" -> "structure"
    [] stage = "human_review_content"   -> "content"
    [] stage = "human_review_quizzes"   -> "quizzes"
    [] OTHER                            -> "none"

StageIndex(stage) == CHOOSE i \in 1..NumStages : StageOrder[i] = stage

GateStage(gate) ==
  CASE gate = "structure" -> "human_review_structure"
    [] gate = "content"   -> "human_review_content"
    [] OTHER              -> "human_review_quizzes"

RegenerationStage(gate) ==
  CASE gate = "structure" -> "module_structure_agent"
    [] gate = "content"   -> "course_content_agent"
    [] OTHER              -> "quiz_curator_agent"

\* routing function: (stage, context) -> index of the next stage, or END
Route(stage, ctx) ==
  LET g == GateOf(stage) IN
  IF g # "none" /\ ctx.approval_status[g] = "false"
    THEN StageIndex(RegenerationStage(g))
    ELSE StageIndex(stage) + 1


(***************************************************************************)
(* Artifact store: the files of the output directory.  A file name is the  *)
(* thread id, "_", the step name and ".json"; names are kept as the        *)
(* sequence of their "_"-separated parts.                                  *)
(***************************************************************************)
StepTokens(step_name) ==
  CASE step_name = "research_findings"   -> << "research", "findings" >>
    [] step_name = "module_structure"    -> << "module", "structure" >>
    [] step_name = "xdp_content"         -> << "xdp", "content" >>
    [] step_name = "course_content"      -> << "course", "content" >>
    [] step_name = "quizzes"             -> << "quizzes" >>
    [] step_name = "final_course"        -> << "final", "course" >>
    [] step_name = "interrupt_structure" -> << "interrupt", "structure" >>
    [] step_name = "interrupt_content"   -> << "interrupt", "content" >>
    [] step_name = "interrupt_quizzes"   -> << "interrupt", "quizzes" >>
    [] step_name = "feedback_structure"  -> << "feedback", "structure" >>
    [] step_name = "feedback_content"    -> << "feedback", "content" >>
    [] OTHER                             -> << "feedback", "quizzes" >>

FileName(thread_id, step_name) == thread_id \o StepTokens(step_name)

\* variant: a file that exists is not opened for writing again
WriteFileIfAbsent(fs, name, content) ==
  [ n \in (DOMAIN fs) \cup {name} |-> IF n \in DOMAIN fs THEN fs[n] ELSE content ]

\* files with one more entry (the function is the directory listing)
WriteFile(fs, name, content) ==
  [ n \in (DOMAIN fs) \cup {name} |-> IF n = name THEN content ELSE fs[n] ]

RemoveFiles(fs, names) == [ n \in (DOMAIN fs) \ names |-> fs[n] ]

save_step_result(fs, step_name, data, thread_id) ==
  WriteFile(fs, FileName(thread_id, step_name),
            [ step_name |-> step_name, thread_id |-> thread_id, data |-> data ])

save_interrupt_state(fs, interrupt_type, state, thread_id) ==
  save_step_result(fs, "interrupt_" \o interrupt_type,
                   [ interrupt_type |-> interrupt_type, state |-> state,
                     requires_human_feedback |-> TRUE ],
                   thread_id)

Exists(fs, step_name, thread_id) == FileName(thread_id, step_name) \in DOMAIN fs

\* the record read back, or NoRecord for Python's None
NoRecord == [ step_name |-> None, thread_id |-> << >>, data |-> None ]

get_latest_result(fs, step_name, thread_id) ==
  IF Exists(fs, step_name, thread_id)
    THEN fs[FileName(thread_id, step_name)]
    ELSE NoRecord

\* variant: the pattern does not name the thread id ("*.json")
GlobAll(fs, thread_id) == DOMAIN fs

\* glob "<thread_id>_*.json": every name that continues the thread id
GlobThread(fs, thread_id) ==
  { n \in DOMAIN fs : /\ Len(n) > Len(thread_id)
                      /\ SubSeq(n, 1, Len(thread_id)) = thread_id }

StepNames ==
  { "research_findings", "module_structure", "xdp_content", "course_content",
    "quizzes", "final_course" }
  \cup { "interrupt_" \o g : g \in Gates } \cup { "feedback_" \o g : g \in Gates }

clear_previous_run(fs, thread_id) == RemoveFiles(fs, GlobThread(fs, thread_id))

(***************************************************************************)
(* Progress log: one append-only sequence per thread id.                   *)
(***************************************************************************)
Entry(step, status, details) ==
  [ step |-> step, status |-> status, details |-> details ]

log_step(pl, step, status, details) == Append(pl, Entry(step, status, details))

log_node_start(pl, node) == log_step(pl, node, "started", "")

log_node_progress(pl, node) == log_step(pl, node, "in_progress", "")

log_node_complete(pl, node, details) == log_step(pl, node, "completed", details)

log_node_error(pl, node, error) == log_step(pl, node, "error", error)

(***************************************************************************)
(* Context                                                                 *)
(***************************************************************************)
UserInput(fields_present, learner_level, number_of_modules) ==
  [ fields_present |-> fields_present, learner_level |-> learner_level,
    number_of_modules |-> number_of_modules ]

UserInputs ==
  { UserInput(TRUE, "intermediate", 3), UserInput(FALSE, "intermediate", 3),
    UserInput(TRUE, "expert", 3), UserInput(TRUE, "intermediate", 0) }

\* what CourseConfig.model_dump() yields: every field present, modules >= 1
ConfigDumps == { u \in UserInputs : u.fields_present /\ u.number_of_modules >= 1 }

initialize_state(user_input, thread_id) ==
  [ user_input        |-> user_input,
    research_findings |-> None,
    module_structure  |-> None,
    xdp_content       |-> None,
    course_content    |-> None,
    quizzes           |-> None,
    human_feedback    |-> [ g \in Gates |-> "none" ],
    approval_status   |-> [ g \in Gates |-> "none" ],
    course_metadata   |-> [ thread_id |-> thread_id, statistics |-> FALSE ],
    errors            |-> << >>,
    current_step      |-> "initialized" ]

(***************************************************************************)
(* Stage functions.  A stage works on w = [ctx, files, plog] and returns   *)
(* it updated, with raised = TRUE when an exception escapes the stage.     *)
(* ch is what the opaque part of the stage (the language model call, the   *)
(* shape of its answer) does in this execution.  With "fail_to_end" the    *)
(* stage fails as with "fail" and the routing function sends the failed    *)
(* state to END.                                                           *)
(***************************************************************************)
StageChoices == { "ok", "fail", "fail_to_end", "late_fail", "raise" }

Returned(w) == [ ctx |-> w.ctx, files |-> w.files, plog |-> w.plog, raised |-> FALSE ]

Raised(w) == [ ctx |-> w.ctx, files |-> w.files, plog |-> w.plog, raised |-> TRUE ]

TidOf(ctx) == ctx.course_metadata.thread_id

collect_user_input(w, ch) ==
  LET state == w.ctx IN
  IF ~state.user_input.fields_present
    THEN Returned([ w EXCEPT !.ctx.current_step = "collecting_user_input",
                             !.ctx.errors = Append(@, "Missing required fields") ])
  ELSE IF state.user_input.learner_level \notin { "basic", "intermediate", "advanced" }
    THEN Returned([ w EXCEPT !.ctx.errors = Append(@, "Invalid learner level") ])
  ELSE IF state.user_input.number_of_modules <= 0
    THEN Returned([ w EXCEPT !.ctx.errors =
                               Append(@, "Number of modules must be greater than 0") ])
  ELSE Returned([ w EXCEPT !.ctx.current_step = "user_input_collected" ])

researcher_agent(w, ch) ==
  LET thread_id == TidOf(w.ctx)
      w1 == [ w EXCEPT !.plog = log_node_progress(@, "researcher_agent") ]
      \* lines 116-121: the findings are stored in the state and saved
      w2 == [ w1 EXCEPT !.ctx.research_findings = "findings",
                        !.ctx.current_step = "research_completed",
                        !.files = save_step_result(@, "research_findings",
                                                   "findings", thread_id) ]
      failed(x) == [ x EXCEPT !.ctx.errors = Append(@, "Researcher agent error"),
                              !.ctx.current_step = "research_failed" ]
  IN CASE ch = "ok" ->
            Returned([ w2 EXCEPT !.plog = log_node_complete(@, "researcher_agent", "") ])
       [] ch = "late_fail" -> Returned(failed(w2))
       [] OTHER -> Returned(failed(w1))

xdp_agent(w, ch) ==
  LET thread_id == TidOf(w.ctx)
      w1 == [ w EXCEPT !.plog = log_node_progress(@, "xdp_agent") ]
      w2 == [ w1 EXCEPT !.ctx.xdp_content = "xdp" ]
      w3 == [ w2 EXCEPT !.files = save_step_result(@, "xdp_content", "xdp", thread_id) ]
      failed(x) == [ x EXCEPT !.ctx.errors = Append(@, "XDP agent error"),
                              !.ctx.current_step = "xdp_failed" ]
  IN IF w.ctx.module_structure = None
       THEN Returned([ w EXCEPT
              !.ctx.errors = Append(@, "Module structure not available"),
              !.plog = log_node_error(@, "xdp_agent", "Module structure not available") ])
     ELSE CASE ch = "ok" ->
                 Returned([ w3 EXCEPT
                   !.plog = log_node_complete(@, "xdp_agent", ""),
                   !.ctx.current_step = "xdp_created" ])
            [] ch = "late_fail" -> Returned(failed(w2))
            [] OTHER -> Returned(failed(w1))

\* a generation stage whose source is not at hand: it fills its output
\* field and saves it, or records a recoverable error, or raises
GenerationStage(w, ch, node, field, value, done, failed) ==
  LET thread_id == TidOf(w.ctx)
      w1 == [ w EXCEPT !.plog = log_node_progress(@, node) ]
  IN CASE ch = "ok" ->
            Returned([ w1 EXCEPT
              !.ctx = [ @ EXCEPT ![field] = value, !.current_step = done ],
              !.files = save_step_result(@, field, value, thread_id),
              !.plog = log_node_complete(@, node, "") ])
       [] ch = "raise" -> Raised(w1)
       [] OTHER ->
            Returned([ w1 EXCEPT !.ctx.errors = Append(@, node \o " error"),
                                 !.ctx.current_step = failed ])

finalize_course(w, ch) ==
  LET thread_id == TidOf(w.ctx) IN
  IF ch = "raise" THEN Raised(w)
  ELSE Returned([ w EXCEPT
         !.ctx.course_metadata.statistics = TRUE,
         !.ctx.current_step = "course_finalized",
         !.files = save_step_result(@, "final_course", "course", thread_id) ])

\* a review gate stage: it marks the Context; the Engine pauses after it
human_review(w, ch, gate) ==
  Returned([ w EXCEPT !.ctx.current_step = gate \o "_review" ])

StageFn(stage, w, ch) ==
  CASE stage = "collect_user_input" -> collect_user_input(w, ch)
    [] stage = "researcher_agent" -> researcher_agent(w, ch)
    [] stage = "module_structure_agent" ->
         GenerationStage(w, ch, stage, "module_structure", "modules",
                         "structure_created", "structure_failed")
    [] stage = "xdp_agent" -> xdp_agent(w, ch)
    [] stage = "course_content_agent" ->
         GenerationStage(w, ch, stage, "course_content", "lessons",
                         "content_created", "content_failed")
    [] stage = "quiz_curator_agent" ->
         GenerationStage(w, ch, stage, "quizzes", "quizzes",
                         "quizzes_created", "quizzes_failed")
    [] stage = "finalize_course" -> finalize_course(w, ch)
    [] OTHER -> human_review(w, ch, GateOf(stage))

\* the choices that make a difference to a stage
ChoicesOf(stage) ==
  CASE stage \in { "researcher_agent", "xdp_agent" } ->
         { "ok", "fail", "fail_to_end", "late_fail" }
    [] stage \in { "module_structure_agent", "course_content_agent",
                   "quiz_curator_agent" } -> { "ok", "fail", "fail_to_end", "raise" }
    [] stage = "finalize_course" -> { "ok", "raise" }
    [] OTHER -> { "ok" }

(***************************************************************************)
(* Pipeline engine (the compiled graph).  e = [ckpt, files, plog, gen]:    *)
(* the checkpoint of the run, the shared stores, and the position of the   *)
(* stream being consumed.  EngineItem produces the next streamed item.     *)
(***************************************************************************)
NoCheckpoint ==
  [ exists |-> FALSE, ctx |-> initialize_state(CHOOSE u \in ConfigDumps : TRUE, << >>),
    next |-> END, interrupt |-> "none", failed |-> FALSE ]

Item(e, kind, node) ==
  [ ckpt |-> e.ckpt, files |-> e.files, plog |-> e.plog, gen |-> e.gen,
    kind |-> kind, node |-> node ]

\* app.stream(initial_state): the run starts at the first stage
StreamStart(e, initial_state) ==
  [ e EXCEPT !.ckpt = [ exists |-> TRUE, ctx |-> initial_state,
                        next |-> 1, interrupt |-> "none", failed |-> FALSE ],
             !.gen = "active" ]

\* the feedback deposited for a gate, merged into the Context
MergeFeedback(ctx, gate, feedback) ==
  [ ctx EXCEPT !.human_feedback[gate] = feedback,
               !.approval_status[gate] =
                 CASE feedback = "approve" -> "true"
                   [] feedback = "reject"  -> "false"
                   [] OTHER                -> "none" ]

\* variant: a paused run resumes whether or not feedback was deposited
ResumeUnconditionally(e) == e.ckpt.interrupt # "none"

\* a paused run may resume: the feedback record of its gate is there
MayResume(e) ==
  Exists(e.files, "feedback_" \o e.ckpt.interrupt, TidOf(e.ckpt.ctx))

\* resume past a gate: consume the feedback, clear the interrupt, route on
ConsumeFeedback(e) ==
  LET gate == e.ckpt.interrupt
      thread_id == TidOf(e.ckpt.ctx)
      fb == get_latest_result(e.files, "feedback_" \o gate, thread_id).data
      ctx == MergeFeedback(e.ckpt.ctx, gate, fb)
  IN [ e EXCEPT
         !.ckpt = [ exists |-> TRUE, ctx |-> ctx,
                    next |-> Route(GateStage(gate), ctx), interrupt |-> "none",
                    failed |-> FALSE ],
         !.files = RemoveFiles(@, { FileName(thread_id, "feedback_" \o gate),
                                    FileName(thread_id, "interrupt_" \o gate) }),
         !.gen = "active" ]

\* variant: a stream opened on a halted run yields nothing only at a gate
HaltedAtGateOnly(e) == e.ckpt.interrupt # "none" /\ ~MayResume(e)

\* a stream opened on the run yields nothing: the run never started, it was
\* aborted by a fatal failure, or it is paused with no feedback to consume
Halted(e) ==
  \/ ~e.ckpt.exists
  \/ e.ckpt.failed
  \/ e.ckpt.interrupt # "none" /\ ~MayResume(e)

\* variant: a failed state is routed like any other
RouteForward(stage, ctx, ch) == Route(stage, ctx)

\* the routing function after a stage: a failed state goes to the fallback
\* (the next stage) or to END
RouteAfter(stage, ctx, ch) ==
  IF ch = "fail_to_end" THEN END ELSE Route(stage, ctx)

\* execute the stage the checkpoint points at and checkpoint its result
ExecNext(e, ch) ==
  IF e.ckpt.next = END THEN Item([ e EXCEPT !.gen = "ended" ], "end", "none")
  ELSE
    LET stage == StageOrder[e.ckpt.next]
        gate == GateOf(stage)
        Checkpoint(r) ==
          IF r.raised
            THEN Item([ e EXCEPT !.ckpt.failed = TRUE, !.files = r.files,
                                 !.plog = r.plog, !.gen = "ended" ], "raise", stage)
          ELSE IF gate # "none"
            THEN Item([ e EXCEPT
                   !.ckpt = [ @ EXCEPT !.ctx = r.ctx, !.interrupt = gate ],
                   !.files = save_interrupt_state(r.files, gate, r.ctx, TidOf(r.ctx)),
                   !.plog = r.plog,
                   !.gen = "interrupting" ], "update", stage)
          ELSE Item([ e EXCEPT
                   !.ckpt = [ @ EXCEPT !.ctx = r.ctx, !.next = RouteAfter(stage, r.ctx, ch) ],
                   !.files = r.files,
                   !.plog = r.plog ], "update", stage)
    IN Apply(Checkpoint, StageFn(stage, [ ctx |-> e.ckpt.ctx, files |-> e.files,
                                          plog |-> e.plog ], ch))

EngineItem(e, ch) ==
  LET paused == e.ckpt.interrupt # "none" IN
  CASE e.gen = "fresh" /\ Halted(e) ->
         Item([ e EXCEPT !.gen = "ended" ], "end", "none")
    [] e.gen = "interrupting" ->
         Item([ e EXCEPT !.gen = "ended" ], "interrupt", "__interrupt__")
    [] e.gen = "ended" -> Item(e, "end", "none")
    [] OTHER ->
         ExecNext(IF e.gen = "fresh" /\ paused THEN ConsumeFeedback(e)
                  ELSE [ e EXCEPT !.gen = "active" ], ch)

(***************************************************************************)
(* run_course_builder, one streamed item per step.  L holds the locals of  *)
(* the call and the stores it works on.                                    *)
(***************************************************************************)
NoState == [ node |-> "none", state |-> NoCheckpoint.ctx ]

EngineOf(L) == [ ckpt |-> L.ckpt, files |-> L.files, plog |-> L.plog, gen |-> L.gen ]

WithEngine(L, it) ==
  [ L EXCEPT !.ckpt = it.ckpt, !.files = it.files, !.plog = it.plog, !.gen = it.gen ]

DictTruthy(d) == DOMAIN d # {}

\* lines 219-274 and 131-190: the entries written for one streamed update
ProcessUpdate(pl, node_name, state_data) ==
  LET details ==
        IF DictTruthy(state_data.course_metadata) THEN "course_finalized"
        ELSE IF state_data.xdp_content # None THEN "xdp_content"
        ELSE IF state_data.quizzes # None THEN "quizzes"
        ELSE IF state_data.course_content # None THEN "lessons"
        ELSE IF state_data.module_structure # None THEN "modules"
        ELSE state_data.current_step
      p1 == log_node_start(pl, node_name)
      p2 == log_node_complete(p1, node_name, details)
  IN IF state_data.errors # << >>
       THEN log_node_error(p2, node_name, state_data.errors[Len(state_data.errors)])
       ELSE p2

\* variant: the call opens the stream without logging workflow/started
RcbBeginSilent(files, plog, ckpt, user_input, thread_id, clear_existing) ==
  LET fs == IF clear_existing THEN clear_previous_run(files, thread_id) ELSE files
      e == StreamStart([ ckpt |-> ckpt, files |-> fs, plog |-> plog, gen |-> "active" ],
                       initialize_state(user_input, thread_id))
  IN [ pc |-> "stream", stream_ended |-> FALSE, final_state |-> NoState,
       ckpt |-> e.ckpt, files |-> e.files, plog |-> e.plog, gen |-> e.gen ]

\* lines 77-94: clear, build the graph, initialise, log, open the stream
RcbBegin(files, plog, ckpt, user_input, thread_id, clear_existing) ==
  LET fs == IF clear_existing THEN clear_previous_run(files, thread_id) ELSE files
      e == StreamStart([ ckpt |-> ckpt, files |-> fs,
                         plog |-> log_step(plog, "workflow", "started", ""),
                         gen |-> "active" ],
                       initialize_state(user_input, thread_id))
  IN [ pc |-> "stream", stream_ended |-> FALSE, final_state |-> NoState,
       ckpt |-> e.ckpt, files |-> e.files, plog |-> e.plog, gen |-> e.gen ]

\* lines 278-312: the stream of the first loop ended
RcbTail(L) ==
  LET end_reached == /\ L.final_state.node # "none"
                     /\ DictTruthy(L.final_state.state.course_metadata)
  IN [ L EXCEPT !.pc = "returned",
                !.plog = log_step(@, "workflow", "completed",
                                  IF end_reached THEN "reached_end_true"
                                                 ELSE "reached_end_false") ]

\* lines 116-217: one item of a stream(None) of the while loop
RcbInner(L, it) ==
  LET L1 == WithEngine(L, it)
  IN CASE it.kind = "raise" -> [ L1 EXCEPT !.pc = "raised" ]
       [] it.kind = "interrupt" ->
            [ L1 EXCEPT !.pc = "restream", !.stream_ended = FALSE,
                        !.plog = log_step(@, "workflow", "in_progress",
                                          "continuing_after_interrupt") ]
       [] it.kind = "update" ->
            [ L1 EXCEPT !.pc = "inner", !.stream_ended = FALSE,
                        !.plog = ProcessUpdate(@, it.node, it.ckpt.ctx),
                        !.final_state = [ node |-> it.node, state |-> it.ckpt.ctx ] ]
       [] OTHER ->
            IF L.stream_ended
              THEN [ L1 EXCEPT !.pc = "returned",
                               !.plog = log_step(@, "workflow", "completed", "final") ]
              ELSE [ L1 EXCEPT !.pc = "restream" ]

\* lines 98-127, 219-276: one item of the first stream
RcbOuter(L, it) ==
  LET L1 == WithEngine(L, it)
  IN CASE it.kind = "raise" -> [ L1 EXCEPT !.pc = "raised" ]
       [] it.kind = "interrupt" ->
            [ L1 EXCEPT !.pc = "restream",
                        !.plog = log_step(@, "workflow", "in_progress",
                                          "continuing_after_interrupt") ]
       [] it.kind = "update" ->
            [ L1 EXCEPT !.plog = ProcessUpdate(@, it.node, it.ckpt.ctx),
                        !.final_state = [ node |-> it.node, state |-> it.ckpt.ctx ] ]
       [] OTHER -> RcbTail(L1)

\* the next item of the stream being consumed; a stream(None) is opened
\* first (lines 114-116) when the previous one has ended
RcbStep(L, ch) ==
  LET L0 == IF L.pc = "restream"
              THEN [ L EXCEPT !.stream_ended = TRUE, !.gen = "fresh" ] ELSE L
      Consume(it) == IF L.pc = "stream" THEN RcbOuter(L0, it) ELSE RcbInner(L0, it)
  IN IF L.pc \in { "stream", "restream", "inner" }
       THEN Apply(Consume, EngineItem(EngineOf(L0), ch))
       ELSE L

RcbDone(L) == L.pc \in { "returned", "raised" }

\* the stage the next step of the call would execute, or "none"
NextStage(L) ==
  LET e0 == EngineOf(L)
      fresh == L.pc = "restream"
      paused == e0.ckpt.interrupt # "none"
      halted == IF fresh THEN Halted(e0)
                         ELSE L.gen \in { "interrupting", "ended" }
      StageAt(next) == IF halted \/ next = END THEN "none" ELSE StageOrder[next]
  IN StageAt(IF fresh /\ paused /\ MayResume(e0)
               THEN ConsumeFeedback(e0).ckpt.next ELSE e0.ckpt.next)

(***************************************************************************)
(* The reviewer (ui/app.py): the active gate is derived from the interrupt *)
(* records, and the feedback file of that gate is written.                 *)
(***************************************************************************)
ActiveType(fs, thread_id) ==
  IF Exists(fs, "interrupt_quizzes", thread_id) THEN "quizzes"
  ELSE IF Exists(fs, "interrupt_content", thread_id) THEN "content"
  ELSE IF Exists(fs, "interrupt_structure", thread_id) THEN "structure"
  ELSE "none"

ReviewedField(gate) ==
  CASE gate = "structure" -> "module_structure"
    [] gate = "content"   -> "course_content"
    [] OTHER              -> "quizzes"

\* the review form is shown: the snapshot holds the output under review
CanReview(fs, thread_id) ==
  LET gate == ActiveType(fs, thread_id) IN
  /\ gate # "none"
  /\ get_latest_result(fs, "interrupt_" \o gate, thread_id).data.state[ReviewedField(gate)]
       # None

SubmitFeedback(fs, thread_id, feedback) ==
  LET gate == ActiveType(fs, thread_id) IN
  WriteFile(fs, FileName(thread_id, "feedback_" \o gate),
            [ step_name |-> "feedback_" \o gate, thread_id |-> thread_id,
              data |-> feedback ])

(***************************************************************************)
(* One whole call of run_course_builder.  A scenario fixes what the opaque *)
(* parts do during the call: which stage goes wrong and how, and the       *)
(* feedback the reviewer deposits while the call is at a gate.             *)
(***************************************************************************)
ChoiceAt(sc, stage) == IF stage = sc.bad THEN sc.how ELSE "ok"

\* the reviewer deposits the next feedback of the scenario when the call is
\* between two streams and a gate is under review.  X = [L, sc]
ScenarioDeposit(X, thread_id) ==
  IF X.L.pc = "restream" /\ X.sc.fb # << >> /\ CanReview(X.L.files, thread_id)
    THEN [ L  |-> [ X.L EXCEPT !.files = SubmitFeedback(@, thread_id, Head(X.sc.fb)) ],
           sc |-> [ X.sc EXCEPT !.fb = Tail(@) ] ]
    ELSE X

RECURSIVE RunLoop(_, _)
RunLoop(X, thread_id) ==
  LET Step(Y) == [ Y EXCEPT !.L = RcbStep(Y.L, ChoiceAt(Y.sc, NextStage(Y.L))) ]
      Continue(Y) == RunLoop(Y, thread_id)
  IN IF RcbDone(X.L) THEN X.L
     ELSE Apply(Continue, Apply(Step, ScenarioDeposit(X, thread_id)))

run_course_builder(files, plog, ckpt, user_input, thread_id, clear_existing, sc) ==
  RunLoop([ L  |-> RcbBegin(files, plog, ckpt, user_input, thread_id, clear_existing),
            sc |-> sc ], thread_id)

Scenarios ==
  { [ bad |-> "none", how |-> "ok", fb |-> f ] :
      f \in { << >>, << "approve", "approve" >>,
              << "approve", "approve", "approve" >> } }
  \cup
  { [ bad |-> "course_content_agent", how |-> "raise", fb |-> << "approve" >> ] }

(***************************************************************************)
(* State                                                                   *)
(***************************************************************************)
VARIABLES
  sessions,   \* ConversationManager.sessions: the ids in the collection
  session,    \* the fields of each ConversationSession
  ilog,       \* InteractionLogger: the events logged per session id
  futures,    \* the work items submitted to the executor, in order
  req,        \* the API requests: position in handle_message and locals
  files,      \* the output directory (artifact, interrupt, feedback files)
  plog,       \* the progress log per thread id
  ckpt,       \* the engine's checkpoint per thread id
  call,       \* EngineSpec: the call in progress on EngineThread, its locals
  budget,     \* EngineSpec: the calls and feedback deposits made so far
  executed,   \* EngineSpec: the stages the engine has executed, in order
  saver,      \* StoreSpec: the ResultsSaver call last made, and the data
              \* last saved under each (thread id, step name)
  reader,     \* ApiSpec: the read request being answered, and its response
  exec,       \* StageSpec: the stage function being executed, statement by
              \* statement, and the state it was called with
  lock        \* LockSpec: the holder of ConversationManager.lock and the
              \* position of each thread in create_session / get_session

vars ==
  << sessions, session, ilog, futures, req, files, plog, ckpt, call, budget, executed,
     saver, reader, exec, lock >>

managerVars == << sessions, session, ilog, futures, req >>

storeVars == << files, plog, ckpt >>

engineVars == << call, budget, executed >>

(***************************************************************************)
(* Conversation manager                                                    *)
(***************************************************************************)
RequestIds == 1..MaxRequests

RequiredFields ==
  { "course subject", "learner level", "course duration", "number of modules" }

\* a message text, as the set of required-field keywords it contains
MessageTexts == { {}, RequiredFields }

Configs == { "intermediate" }

\* CourseConfig.model_dump()
model_dump(config) == UserInput(TRUE, config, 3)

ByRequest(i) == [ kind |-> "request", id |-> i ]

ByWorker(f) == [ kind |-> "worker", id |-> f ]

BySystem == [ kind |-> "system", id |-> 0 ]

ConversationMessage(role, type, mentions, by) ==
  [ role |-> role, type |-> type, mentions |-> mentions, by |-> by ]

\* ConversationSession.__init__
ConversationSession ==
  [ status           |-> "awaiting_requirements",
    messages         |-> << ConversationMessage("system", "system_prompt", {}, BySystem) >>,
    workflow_future  |-> 0,
    last_error       |-> None,
    workflow_summary |-> {},
    course_config    |-> None ]

append_message(s, role, type, mentions, by) ==
  [ s EXCEPT !.messages = Append(@, ConversationMessage(role, type, mentions, by)) ]

log_event(log, event_type, by) == Append(log, [ event_type |-> event_type, by |-> by ])

\* line 97: the session's prior submission has not finished
WorkflowBusy(s, futs) ==
  s.workflow_future # 0 /\ futs[s.workflow_future].state # "done"

\* variant: the status is compared with a value no session ever has
AlreadyRunningMisspelt(s) == s.status = "running"

\* line 158
AlreadyRunning(s) == s.status = "running_workflow"

\* variant: the course_config of the payload is not looked at
ConfigNeverMissing(payload) == FALSE

\* line 156
MissingConfig(payload) == payload.course_config = None

\* get_artifacts, line 231: the well-known keys
ArtifactKeys ==
  { "module_structure", "course_content", "quizzes", "xdp_content", "final_course" }

\* the step names under which the stages save their outputs
OutputKeys == ArtifactKeys \cup { "research_findings" }

_course_field_known(s, field) ==
  \/ s.course_config # None
  \/ \E k \in 1..Len(s.messages) :
       s.messages[k].role = "user" /\ field \in s.messages[k].mentions

_generate_clarifying_prompt(s) ==
  LET missing == IF s.course_config # None THEN {}
                 ELSE { f \in RequiredFields : ~_course_field_known(s, f) }
  IN IF missing # {} THEN "need_detail" ELSE "ready"

\* the keys _build_summary sets, or raised when it trips over a None output
_build_summary(final_state) ==
  IF final_state.node = "none" THEN [ raised |-> FALSE, summary |-> {} ]
  ELSE LET sd == final_state.state IN
       IF sd.module_structure = None \/ sd.quizzes = None \/ sd.course_content = None
         THEN [ raised |-> TRUE, summary |-> {} ]
         ELSE [ raised |-> FALSE,
                summary |-> { "modules", "lessons", "quizzes", "content_blocks" }
                            \cup (IF DictTruthy(sd.course_metadata)
                                    THEN { "course_metadata" } ELSE {}) ]

\* StoreSpec: the thread ids, step names and data the store is called with
StoreSteps == { "quizzes" }

StoreGates == { "quizzes" }

StoreData == { "v1", "v2" }

StoreThreads == { ThreadIdOf(u) : u \in Uuids }

StoreKeys == StoreThreads \X (StoreSteps \cup { "interrupt_" \o g : g \in StoreGates })

NoCall == [ name |-> "none", step_name |-> None, thread_id |-> << >>, result |-> NoRecord ]

\* no read request is being answered
NoRead ==
  [ pc |-> "idle", op |-> "none", session_id |-> CHOOSE u \in Uuids : TRUE,
    response |-> 0, body |-> [ none |-> None ] ]

\* no stage function is being executed
NoExec ==
  [ fn |-> "none", ch |-> "ok", pc |-> "idle", todo |-> << >>,
    w |-> [ ctx |-> NoCheckpoint.ctx, files |-> [ n \in {} |-> NoRecord ], plog |-> << >> ],
    entry |-> [ ctx |-> NoCheckpoint.ctx, files |-> [ n \in {} |-> NoRecord ],
                plog |-> << >> ] ]

\* the threads that call create_session and get_session
LockThreads == { "t1", "t2" }

NoThread == [ pc |-> "idle", op |-> "none", session_id |-> CHOOSE u \in Uuids : TRUE ]

\* the lock is free and no thread is in a call
NoLock == [ holder |-> "none", thread |-> [ t \in LockThreads |-> NoThread ] ]

IdleCall ==
  [ kind |-> "idle", pc |-> "none", gen |-> "ended", stream_ended |-> FALSE,
    final_state |-> NoState, item |-> "none" ]

IdleRequest ==
  [ pc |-> "idle", session_id |-> CHOOSE u \in Uuids : TRUE, action |-> "chat",
    course_config |-> None, message |-> {}, response |-> 0, future |-> 0,
    seen_status |-> None ]

\* executor.submit(_runner): the closure holds the session and the config;
\* outcome remembers how the call of run_course_builder ended, saved the
\* artifacts its stages had written by then, logged the Progress Log as it
\* was then
NewFuture(sid, config) ==
  [ session_id |-> sid, config |-> config, state |-> "pending", pc |-> "run",
    final_state |-> NoState, exc |-> None, escaped |-> FALSE, outcome |-> "none",
    saved |-> {}, logged |-> << >> ]

Init ==
  /\ sessions = {}
  /\ session = [ u \in AllSessionIds |-> ConversationSession ]
  /\ ilog = [ u \in AllSessionIds |-> << >> ]
  /\ futures = << >>
  /\ req = [ i \in RequestIds |-> IdleRequest ]
  /\ files = [ n \in {} |-> NoRecord ]
  /\ plog = [ t \in ThreadIds |-> << >> ]
  /\ ckpt = [ t \in ThreadIds |-> NoCheckpoint ]
  /\ call = IdleCall
  /\ budget = [ runs |-> 0, resumes |-> 0, deposits |-> 0, faults |-> 0 ]
  /\ executed = << >>
  /\ saver = [ op |-> NoCall, saved |-> [ k \in StoreKeys |-> << >> ] ]
  /\ reader = NoRead
  /\ exec = NoExec
  /\ lock = NoLock

\* variant: the lookup of a session id never fails
get_session_any(ids, session_id) == "found"

\* lines 81-85: the lookup of a session id in the collection
get_session(ids, session_id) == IF session_id \notin ids THEN "KeyError" ELSE "found"

\* lines 74-79
create_session(u) ==
  /\ u \notin sessions
  /\ sessions' = sessions \cup {u}
  /\ session' = [ session EXCEPT ![u] = ConversationSession ]
  /\ ilog' = [ ilog EXCEPT ![u] = log_event(@, "session_created", BySystem) ]
  /\ UNCHANGED << futures, req, storeVars, engineVars, saver, reader, exec, lock >>

\* handle_message lines 147-153: look the session up, record the message
HandleStart(i, sid, action, config, text) ==
  /\ req[i].pc = "idle"
  /\ \A j \in 1..(i - 1) : req[j].pc # "idle"
  /\ LET r == [ req[i] EXCEPT !.session_id = sid, !.action = action,
                              !.course_config = config, !.message = text ]
     IN IF get_session(sessions, sid) = "KeyError"
          THEN /\ req' = [ req EXCEPT ![i] = [ r EXCEPT !.pc = "done", !.response = 404 ] ]
               /\ UNCHANGED << session, ilog >>
          ELSE /\ req' = [ req EXCEPT ![i] = [ r EXCEPT !.pc = "route" ] ]
               /\ session' = [ session EXCEPT ![sid] =
                                 append_message(@, "user", action, text, ByRequest(i)) ]
               /\ ilog' = [ ilog EXCEPT ![sid] = log_event(@, "user_message", ByRequest(i)) ]
  /\ UNCHANGED << sessions, futures, storeVars, engineVars, saver, reader, exec, lock >>

\* handle_message lines 155-177, up to the call of _start_workflow;
\* seen_status remembers the status read at line 158
HandleRoute(i) ==
  LET r == req[i]
      sid == r.session_id
      s == session[sid]
  IN /\ r.pc = "route"
     /\ IF r.action = "generate_course"
          THEN IF MissingConfig(r)
                 THEN /\ req' = [ req EXCEPT ![i].pc = "done", ![i].response = 400 ]
                      /\ UNCHANGED session
               ELSE IF AlreadyRunning(s)
                 THEN /\ session' = [ session EXCEPT ![sid] =
                           append_message(@, "assistant", "already_running", {},
                                          ByRequest(i)) ]
                      /\ req' = [ req EXCEPT ![i].pc = "done", ![i].response = 200,
                                             ![i].seen_status = s.status ]
               ELSE /\ session' = [ session EXCEPT ![sid] =
                           append_message(@, "assistant", "workflow_launch", {},
                                          ByRequest(i)) ]
                    /\ req' = [ req EXCEPT ![i].pc = "check_future",
                                           ![i].seen_status = s.status ]
          ELSE /\ session' = [ session EXCEPT ![sid] =
                    append_message(@, "assistant", _generate_clarifying_prompt(s), {},
                                   ByRequest(i)) ]
               /\ req' = [ req EXCEPT ![i].pc = "done", ![i].response = 200 ]
     /\ UNCHANGED << sessions, ilog, futures, storeVars, engineVars, saver, reader, exec, lock >>

\* variant: the session is marked running before the prior future is checked
MarkBeforeCheck(i) ==
  LET r == req[i]
      sid == r.session_id
  IN /\ r.pc = "check_future"
     /\ session' = [ session EXCEPT ![sid].status = "running_workflow" ]
     /\ IF WorkflowBusy(session[sid], futures)
          THEN req' = [ req EXCEPT ![i].pc = "done", ![i].response = 409 ]
          ELSE req' = [ req EXCEPT ![i].pc = "set_running" ]
     /\ UNCHANGED << sessions, ilog, futures, storeVars, engineVars, saver, reader, exec, lock >>

\* _start_workflow lines 97-98
StartWorkflowCheck(i) ==
  LET r == req[i] IN
  /\ r.pc = "check_future"
  /\ IF WorkflowBusy(session[r.session_id], futures)
       THEN req' = [ req EXCEPT ![i].pc = "done", ![i].response = 409 ]
       ELSE req' = [ req EXCEPT ![i].pc = "set_running" ]
  /\ UNCHANGED << sessions, session, ilog, futures, storeVars, engineVars, saver, reader, exec, lock >>

\* _start_workflow lines 100-106
StartWorkflowMark(i) ==
  LET r == req[i]
      sid == r.session_id
  IN /\ r.pc = "set_running"
     /\ session' = [ session EXCEPT ![sid].status = "running_workflow",
                                    ![sid].course_config = r.course_config ]
     /\ ilog' = [ ilog EXCEPT ![sid] = log_event(@, "workflow_started", ByRequest(i)) ]
     /\ req' = [ req EXCEPT ![i].pc = "submit" ]
     /\ UNCHANGED << sessions, futures, storeVars, engineVars, saver, reader, exec, lock >>

\* _start_workflow line 143, and the return of handle_message
StartWorkflowSubmit(i) ==
  LET r == req[i]
      sid == r.session_id
      f == Len(futures) + 1
  IN /\ r.pc = "submit"
     /\ futures' = Append(futures, NewFuture(sid, r.course_config))
     /\ session' = [ session EXCEPT ![sid].workflow_future = f ]
     /\ req' = [ req EXCEPT ![i].pc = "done", ![i].response = 200, ![i].future = f ]
     /\ UNCHANGED << sessions, ilog, storeVars, engineVars, saver, reader, exec, lock >>

(***************************************************************************)
(* Worker pool: _runner (lines 108-141), executed by ThreadPoolExecutor    *)
(***************************************************************************)
FutureIds == 1..MaxRequests

Running == { f \in 1..Len(futures) : futures[f].state = "running" }

Pending == { f \in 1..Len(futures) : futures[f].state = "pending" }

\* variant: the handler names a narrower exception class
CatchesValueError(exc) == exc = "ValueError"

\* "except Exception": what the handler of _runner catches
Catches(exc) == exc \in { "Exception", "TypeError" }

\* a worker thread takes the oldest queued work item
RunnerStart(f) ==
  /\ f \in Pending
  /\ \A g \in Pending : f <= g
  /\ Cardinality(Running) < workflow_workers
  /\ futures' = [ futures EXCEPT ![f].state = "running" ]
  /\ UNCHANGED << sessions, session, ilog, req, storeVars, engineVars, saver, reader, exec, lock >>

\* the work item is over: the future is done
Finish(fut) == [ fut EXCEPT !.state = "done", !.pc = "over", !.final_state = NoState ]

\* variant: the handler swallows the exception ("except Exception: pass")
ThrowSwallowed(fut, exc) == [ Finish(fut) EXCEPT !.exc = exc ]

\* an exception raised in the try block of _runner
Throw(fut, exc) ==
  IF Catches(exc)
    THEN [ fut EXCEPT !.pc = "except", !.exc = exc, !.final_state = NoState ]
    ELSE [ Finish(fut) EXCEPT !.exc = exc, !.escaped = TRUE ]

\* lines 110-114: the call of run_course_builder
RunnerRun(f, sc) ==
  LET fut == futures[f]
      thread_id == ThreadIdOf(fut.session_id)
      Outcome(L) ==
        /\ files' = L.files
        /\ plog' = [ plog EXCEPT ![thread_id] = L.plog ]
        /\ ckpt' = [ ckpt EXCEPT ![thread_id] = L.ckpt ]
        /\ futures' = [ futures EXCEPT ![f] =
              [ IF L.pc = "raised"
                  THEN [ Throw(fut, "Exception") EXCEPT !.outcome = "raised" ]
                  ELSE [ fut EXCEPT !.pc = "complete", !.final_state = L.final_state,
                                    !.outcome = IF L.ckpt.interrupt # "none"
                                                  THEN "paused" ELSE "ended" ]
                EXCEPT !.saved = { k \in OutputKeys : Exists(L.files, k, thread_id) },
                       !.logged = L.plog ] ]
  IN /\ f \in Running /\ fut.pc = "run"
     /\ UNCHANGED << sessions, session, ilog, req, engineVars, saver, reader, exec, lock >>
     /\ \E L \in { run_course_builder(files, plog[thread_id], ckpt[thread_id],
                                        model_dump(fut.config), thread_id,
                                        allow_clear_previous_run, sc) } : Outcome(L)

\* lines 115-116
RunnerComplete(f) ==
  LET fut == futures[f]
      sid == fut.session_id
      r == _build_summary(fut.final_state)
  IN /\ f \in Running /\ fut.pc = "complete"
     /\ IF r.raised
          THEN /\ futures' = [ futures EXCEPT ![f] = Throw(fut, "TypeError") ]
               /\ UNCHANGED session
          ELSE /\ session' = [ session EXCEPT ![sid].workflow_summary = r.summary,
                                              ![sid].status = "completed" ]
               /\ futures' = [ futures EXCEPT ![f].pc = "notify",
                                              ![f].final_state = NoState ]
     /\ UNCHANGED << sessions, ilog, req, storeVars, engineVars, saver, reader, exec, lock >>

\* lines 117-127
RunnerNotify(f) ==
  LET fut == futures[f]
      sid == fut.session_id
  IN /\ f \in Running /\ fut.pc = "notify"
     /\ session' = [ session EXCEPT ![sid] =
           append_message(@, "assistant", "workflow_complete", {}, ByWorker(f)) ]
     /\ ilog' = [ ilog EXCEPT ![sid] = log_event(@, "workflow_completed", ByWorker(f)) ]
     /\ futures' = [ futures EXCEPT ![f] = Finish(fut) ]
     /\ UNCHANGED << sessions, req, storeVars, engineVars, saver, reader, exec, lock >>

\* variant: the handler puts the session back to its initial status
RunnerExceptReset(f) ==
  LET fut == futures[f] IN
  /\ f \in Running /\ fut.pc = "except"
  /\ session' = [ session EXCEPT ![fut.session_id].status = "awaiting_requirements" ]
  /\ futures' = [ futures EXCEPT ![f].pc = "except_error" ]
  /\ UNCHANGED << sessions, ilog, req, storeVars, engineVars, saver, reader, exec, lock >>

\* line 129
RunnerExceptStatus(f) ==
  LET fut == futures[f] IN
  /\ f \in Running /\ fut.pc = "except"
  /\ session' = [ session EXCEPT ![fut.session_id].status = "error" ]
  /\ futures' = [ futures EXCEPT ![f].pc = "except_error" ]
  /\ UNCHANGED << sessions, ilog, req, storeVars, engineVars, saver, reader, exec, lock >>

\* line 130
RunnerExceptError(f) ==
  LET fut == futures[f] IN
  /\ f \in Running /\ fut.pc = "except_error"
  /\ session' = [ session EXCEPT ![fut.session_id].last_error = fut.exc ]
  /\ futures' = [ futures EXCEPT ![f].pc = "except_notify" ]
  /\ UNCHANGED << sessions, ilog, req, storeVars, engineVars, saver, reader, exec, lock >>

\* lines 131-141
RunnerExceptNotify(f) ==
  LET fut == futures[f]
      sid == fut.session_id
  IN /\ f \in Running /\ fut.pc = "except_notify"
     /\ session' = [ session EXCEPT ![sid] =
           append_message(@, "assistant", "error", {}, ByWorker(f)) ]
     /\ ilog' = [ ilog EXCEPT ![sid] = log_event(@, "workflow_failed", ByWorker(f)) ]
     /\ futures' = [ futures EXCEPT ![f] = Finish(fut) ]
     /\ UNCHANGED << sessions, req, storeVars, engineVars, saver, reader, exec, lock >>

Worker(f) ==
  \/ RunnerStart(f)
  \/ \E sc \in Scenarios : RunnerRun(f, sc)
  \/ RunnerComplete(f)
  \/ RunnerNotify(f)
  \/ RunnerExceptStatus(f)
  \/ RunnerExceptError(f)
  \/ RunnerExceptNotify(f)

\* post_message: a request thread in handle_message, on a session id of ids
RequestOn(i, ids) ==
  \/ \E sid \in ids, text \in MessageTexts :
       HandleStart(i, sid, "chat", None, text)
  \/ \E sid \in ids, config \in Configs \cup { None } :
       HandleStart(i, sid, "generate_course", config, {})
  \/ HandleRoute(i)
  \/ StartWorkflowCheck(i)
  \/ StartWorkflowMark(i)
  \/ StartWorkflowSubmit(i)

Request(i) == RequestOn(i, Uuids)

Next ==
  \/ \E u \in Uuids : create_session(u)
  \/ \E i \in RequestIds : Request(i)
  \/ \E f \in FutureIds : Worker(f)

Spec == Init /\ [][Next]_vars

\* worker threads keep running once started, and the pool keeps taking work
FairSpec == Spec /\ \A f \in FutureIds : WF_vars(Worker(f))

(***************************************************************************)
(* EngineSpec: one run identifier.  run_course_builder and                 *)
(* resume_after_interrupt are called one after the other and advance one   *)
(* streamed item per step; the reviewer deposits feedback in between.      *)
(***************************************************************************)
\* resume_after_interrupt lines 334-358: one item of its stream
ResumeStep(L, ch) ==
  LET Consume(it) ==
        LET L1 == WithEngine(L, it)
        IN CASE it.kind = "raise" -> [ L1 EXCEPT !.pc = "raised" ]
             [] it.kind = "interrupt" ->
                  [ L1 EXCEPT !.final_state = [ node |-> it.node, state |-> it.ckpt.ctx ] ]
             [] it.kind = "update" ->
                  [ L1 EXCEPT !.final_state = [ node |-> it.node, state |-> it.ckpt.ctx ] ]
             [] OTHER -> [ L1 EXCEPT !.pc = "returned" ]
  IN Apply(Consume, EngineItem(EngineOf(L), ch))

\* the call in progress, with the stores it works on
CallLocals ==
  [ pc |-> call.pc, stream_ended |-> call.stream_ended,
    final_state |-> call.final_state, gen |-> call.gen,
    ckpt |-> ckpt[EngineThread], files |-> files, plog |-> plog[EngineThread] ]

\* a step of the call: its locals and the stores it works on written back
Advance(kind, M, stage) ==
  /\ call' = [ call EXCEPT !.kind = kind, !.pc = M.pc, !.stream_ended = M.stream_ended,
                           !.final_state = M.final_state, !.gen = M.gen,
                           !.item = stage ]
  /\ files' = M.files
  /\ plog' = [ plog EXCEPT ![EngineThread] = M.plog ]
  /\ ckpt' = [ ckpt EXCEPT ![EngineThread] = M.ckpt ]
  /\ executed' = IF stage = "none" THEN executed ELSE Append(executed, stage)

EngineRun(user_input, clear_existing) ==
  /\ call.kind = "idle"
  /\ budget.runs < MaxRuns
  /\ budget' = [ budget EXCEPT !.runs = @ + 1 ]
  /\ LET M == RcbBegin(files, plog[EngineThread], ckpt[EngineThread],
                       user_input, EngineThread, clear_existing)
     IN Advance("run_course_builder", M, "none")
  /\ UNCHANGED << managerVars, saver, reader, exec, lock >>

\* what the opaque part of a stage may do, within the fault budget
Fault(ch) ==
  /\ ch # "ok" => budget.faults < MaxFaults
  /\ budget' = [ budget EXCEPT !.faults = IF ch = "ok" THEN @ ELSE @ + 1 ]

EngineRunStep ==
  /\ call.kind = "run_course_builder"
  /\ ~RcbDone(CallLocals)
  /\ LET L == CallLocals
         stage == NextStage(L)
     IN \E ch \in ChoicesOf(stage) :
          Fault(ch) /\ Advance(call.kind, RcbStep(L, ch), stage)
  /\ UNCHANGED << managerVars, saver, reader, exec, lock >>

EngineResume ==
  /\ call.kind = "idle"
  /\ budget.resumes < MaxResumes
  /\ budget' = [ budget EXCEPT !.resumes = @ + 1 ]
  /\ call' = [ IdleCall EXCEPT !.kind = "resume_after_interrupt", !.pc = "restream",
                               !.gen = "fresh" ]
  /\ UNCHANGED << managerVars, saver, reader, exec, lock, storeVars, executed >>

EngineResumeStep ==
  /\ call.kind = "resume_after_interrupt"
  /\ ~RcbDone(CallLocals)
  /\ LET L == CallLocals
         stage == NextStage(L)
     IN \E ch \in ChoicesOf(stage) :
          /\ Fault(ch)
          /\ Advance(call.kind, [ ResumeStep(L, ch) EXCEPT
                                    !.pc = IF @ = "restream" THEN "inner" ELSE @ ], stage)
  /\ UNCHANGED << managerVars, saver, reader, exec, lock >>

\* the call returns or raises to its caller
EngineReturn ==
  /\ call.kind # "idle"
  /\ RcbDone(CallLocals)
  /\ call' = IdleCall
  /\ UNCHANGED << managerVars, saver, reader, exec, lock, storeVars, budget, executed >>

\* the reviewer submits the form of the active gate
Deposit(feedback) ==
  /\ budget.deposits < MaxDeposits
  /\ CanReview(files, EngineThread)
  /\ budget' = [ budget EXCEPT !.deposits = @ + 1 ]
  /\ files' = SubmitFeedback(files, EngineThread, feedback)
  /\ UNCHANGED << managerVars, saver, reader, exec, lock, plog, ckpt, call, executed >>

EngineNext ==
  \/ \E u \in UserInputs, c \in BOOLEAN : EngineRun(u, c)
  \/ EngineRunStep
  \/ EngineResume
  \/ EngineResumeStep
  \/ EngineReturn
  \/ \E fb \in { "approve", "reject" } : Deposit(fb)

EngineSpec == Init /\ [][EngineNext]_vars

(***************************************************************************)
(* StoreSpec: the artifact store on its own.  ResultsSaver is called with  *)
(* thread ids the program allocates; saver.saved remembers the data saved  *)
(* under each key, in order, since the thread's run was last cleared.      *)
(***************************************************************************)
StoreCall(name, step_name, thread_id, result) ==
  [ name |-> name, step_name |-> step_name, thread_id |-> thread_id, result |-> result ]

\* the snapshot a review gate hands to save_interrupt_state
Snapshot(thread_id) == initialize_state(CHOOSE u \in ConfigDumps : TRUE, thread_id)

InterruptData(interrupt_type, state) ==
  [ interrupt_type |-> interrupt_type, state |-> state, requires_human_feedback |-> TRUE ]

SaveStepResult(step_name, data, thread_id) ==
  /\ Len(saver.saved[<< thread_id, step_name >>]) < MaxSaves
  /\ files' = save_step_result(files, step_name, data, thread_id)
  /\ saver' = [ op |-> StoreCall("save_step_result", step_name, thread_id, NoRecord),
                saved |-> [ saver.saved EXCEPT ![<< thread_id, step_name >>] =
                              Append(@, data) ] ]
  /\ UNCHANGED << managerVars, plog, ckpt, engineVars, reader, exec, lock >>

SaveInterruptState(interrupt_type, thread_id) ==
  LET state == Snapshot(thread_id)
      step_name == "interrupt_" \o interrupt_type
  IN /\ Len(saver.saved[<< thread_id, step_name >>]) < MaxSaves
     /\ files' = save_interrupt_state(files, interrupt_type, state, thread_id)
     /\ saver' = [ op |-> StoreCall("save_interrupt_state", step_name, thread_id, NoRecord),
                   saved |-> [ saver.saved EXCEPT ![<< thread_id, step_name >>] =
                                 Append(@, InterruptData(interrupt_type, state)) ] ]
     /\ UNCHANGED << managerVars, plog, ckpt, engineVars, reader, exec, lock >>

ClearPreviousRun(thread_id) ==
  /\ files' = clear_previous_run(files, thread_id)
  /\ saver' = [ op |-> StoreCall("clear_previous_run", None, thread_id, NoRecord),
                saved |-> [ k \in StoreKeys |->
                              IF k[1] = thread_id THEN << >> ELSE saver.saved[k] ] ]
  /\ UNCHANGED << managerVars, plog, ckpt, engineVars, reader, exec, lock >>

GetLatestResult(step_name, thread_id) ==
  /\ saver' = [ saver EXCEPT !.op = StoreCall("get_latest_result", step_name, thread_id,
                                               get_latest_result(files, step_name, thread_id)) ]
  /\ UNCHANGED << managerVars, storeVars, engineVars, reader, exec, lock >>

StoreNext ==
  \/ \E t \in StoreThreads, n \in StoreSteps, d \in StoreData : SaveStepResult(n, d, t)
  \/ \E t \in StoreThreads, g \in StoreGates : SaveInterruptState(g, t)
  \/ \E t \in StoreThreads : ClearPreviousRun(t)
  \/ \E k \in StoreKeys : GetLatestResult(k[2], k[1])

StoreSpec == Init /\ [][StoreNext]_vars

(***************************************************************************)
(* ApiSpec: the conversation manager with its read endpoints.  A read is   *)
(* answered in one step; the response is held in reader until it is        *)
(* returned to the client.                                                 *)
(***************************************************************************)
\* ConversationSession.to_state
to_state(session_id, s) ==
  [ session_id |-> session_id, thread_id |-> ThreadIdOf(session_id),
    status |-> s.status, messages |-> s.messages,
    workflow_summary |-> s.workflow_summary, last_error |-> s.last_error ]

\* variant: every entry of the log is counted as completed
CountAll(steps) == Len(steps)

\* line 220
CountCompleted(steps) == Len(SelectSeq(steps, LAMBDA e : e.status = "completed"))

\* lines 208-226; the progress file exists once an entry has been appended
get_progress(pl) ==
  IF pl = << >>
    THEN [ steps |-> << >>, total_steps |-> 0, completed_steps |-> 0,
           last_step |-> << >> ]
    ELSE [ steps |-> pl, total_steps |-> Len(pl),
           completed_steps |-> CountCompleted(pl), last_step |-> << pl[Len(pl)] >> ]

\* lines 228-241
get_artifacts(fs, thread_id) ==
  LET available == { k \in ArtifactKeys : Exists(fs, k, thread_id) }
  IN [ k \in available |-> get_latest_result(fs, k, thread_id) ]

Respond(op, session_id, response, body) ==
  [ pc |-> "responding", op |-> op, session_id |-> session_id,
    response |-> response, body |-> body ]

NotFound(op, session_id) == Respond(op, session_id, 404, NoRead.body)

\* api.py lines 51-57
GetSession(sid) ==
  /\ reader.pc = "idle"
  /\ reader' = IF get_session(sessions, sid) = "KeyError"
                 THEN NotFound("get_session", sid)
                 ELSE Respond("get_session", sid, 200, to_state(sid, session[sid]))
  /\ UNCHANGED << managerVars, storeVars, engineVars, saver, exec, lock >>

\* api.py lines 72-78
GetProgress(sid) ==
  /\ reader.pc = "idle"
  /\ reader' = IF get_session(sessions, sid) = "KeyError"
                 THEN NotFound("get_progress", sid)
                 ELSE Respond("get_progress", sid, 200, get_progress(plog[ThreadIdOf(sid)]))
  /\ UNCHANGED << managerVars, storeVars, engineVars, saver, exec, lock >>

\* api.py lines 81-87
GetArtifacts(sid) ==
  /\ reader.pc = "idle"
  /\ reader' = IF get_session(sessions, sid) = "KeyError"
                 THEN NotFound("get_artifacts", sid)
                 ELSE Respond("get_artifacts", sid, 200,
                              get_artifacts(files, ThreadIdOf(sid)))
  /\ UNCHANGED << managerVars, storeVars, engineVars, saver, exec, lock >>

\* the response is returned to the client
ReadReturn ==
  /\ reader.pc = "responding"
  /\ reader' = NoRead
  /\ UNCHANGED << managerVars, storeVars, engineVars, saver, exec, lock >>

ApiWrite ==
  \/ \E u \in SessionIds : create_session(u)
  \/ \E i \in RequestIds : RequestOn(i, SessionIds)
  \/ \E f \in FutureIds : Worker(f)

ApiRead ==
  \/ \E sid \in SessionIds : GetSession(sid)
  \/ \E sid \in SessionIds : GetProgress(sid)
  \/ \E sid \in SessionIds : GetArtifacts(sid)
  \/ ReadReturn

ApiNext ==
  \/ reader.pc = "idle" /\ ApiWrite
  \/ ApiRead

ApiSpec == Init /\ [][ApiNext]_vars

(***************************************************************************)
(* LockSpec: create_session and get_session statement by statement, on the *)
(* threads of the API server, with the manager's lock.                     *)
(***************************************************************************)
ThreadAt(t, pc) == lock.thread[t].pc = pc

Move(t, pc) == [ lock EXCEPT !.thread[t].pc = pc ]

\* line 75: the session object is built, with a fresh uuid
CreateBegin(t, u) ==
  /\ ThreadAt(t, "idle")
  /\ u \notin sessions
  /\ \A o \in LockThreads : ~(lock.thread[o].op = "create_session"
                               /\ lock.thread[o].session_id = u)
  /\ lock' = [ lock EXCEPT !.thread[t] =
                 [ pc |-> "acquire", op |-> "create_session", session_id |-> u ] ]
  /\ UNCHANGED << managerVars, storeVars, engineVars, saver, reader, exec >>

\* line 76: with self.lock
CreateAcquire(t) ==
  /\ ThreadAt(t, "acquire")
  /\ lock.holder = "none"
  /\ lock' = [ Move(t, "insert") EXCEPT !.holder = t ]
  /\ UNCHANGED << managerVars, storeVars, engineVars, saver, reader, exec >>

\* line 77: the insert into the collection
CreateInsert(t) ==
  LET u == lock.thread[t].session_id
  IN /\ ThreadAt(t, "insert")
     /\ sessions' = sessions \cup {u}
     /\ session' = [ session EXCEPT ![u] = ConversationSession ]
     /\ lock' = Move(t, "release")
     /\ UNCHANGED << ilog, futures, req, storeVars, engineVars, saver, reader, exec >>

\* the with block is left
CreateRelease(t) ==
  /\ ThreadAt(t, "release")
  /\ lock' = [ Move(t, "log") EXCEPT !.holder = "none" ]
  /\ UNCHANGED << managerVars, storeVars, engineVars, saver, reader, exec >>

\* lines 78-79: the event is logged and the state returned
CreateLog(t) ==
  LET u == lock.thread[t].session_id
  IN /\ ThreadAt(t, "log")
     /\ ilog' = [ ilog EXCEPT ![u] = log_event(@, "session_created", BySystem) ]
     /\ lock' = [ lock EXCEPT !.thread[t] = NoThread ]
     /\ UNCHANGED << sessions, session, futures, req, storeVars, engineVars, saver,
                     reader, exec >>

\* get_session is called, by an endpoint or by handle_message
GetBegin(t, u) ==
  /\ ThreadAt(t, "idle")
  /\ lock' = [ lock EXCEPT !.thread[t] =
                 [ pc |-> "lookup", op |-> "get_session", session_id |-> u ] ]
  /\ UNCHANGED << managerVars, storeVars, engineVars, saver, reader, exec >>

\* line 82: self.sessions.get(session_id)
GetLookup(t) ==
  /\ ThreadAt(t, "lookup")
  /\ lock' = Move(t, get_session(sessions, lock.thread[t].session_id))
  /\ UNCHANGED << managerVars, storeVars, engineVars, saver, reader, exec >>

\* lines 83-85: KeyError is raised or the session returned
GetReturn(t) ==
  /\ ThreadAt(t, "KeyError") \/ ThreadAt(t, "found")
  /\ lock' = [ lock EXCEPT !.thread[t] = NoThread ]
  /\ UNCHANGED << managerVars, storeVars, engineVars, saver, reader, exec >>

LockNext ==
  \E t \in LockThreads :
    \/ \E u \in Uuids : CreateBegin(t, u)
    \/ CreateAcquire(t)
    \/ CreateInsert(t)
    \/ CreateRelease(t)
    \/ CreateLog(t)
    \/ \E u \in Uuids : GetBegin(t, u)
    \/ GetLookup(t)
    \/ GetReturn(t)

LockSpec == Init /\ [][LockNext]_vars

(***************************************************************************)
(* StageSpec: the stage functions statement by statement.  A stage function *)
(* is called with a state the pipeline can hand it; exec.todo holds the    *)
(* statements the call still executes, in order, exec.entry the state and  *)
(* stores it was called with.                                              *)
(***************************************************************************)
StageFunctions == { "collect_user_input", "researcher_agent", "xdp_agent" }

\* the value of current_step a stage function sets when it succeeds
CompletionMarker(fn) ==
  CASE fn = "collect_user_input" -> "user_input_collected"
    [] fn = "researcher_agent"   -> "research_completed"
    [] OTHER                     -> "xdp_created"

\* the value of current_step a stage function sets when it fails
FailureMarker(fn) ==
  CASE fn = "collect_user_input" -> "collecting_user_input"
    [] fn = "researcher_agent"   -> "research_failed"
    [] OTHER                     -> "xdp_failed"

OutputField(fn) == IF fn = "researcher_agent" THEN "research_findings" ELSE "xdp_content"

OutputValue(fn) == IF fn = "researcher_agent" THEN "findings" ELSE "xdp"

\* variant: the error replaces the errors recorded so far
reset_errors(errors, msg) == << msg >>

\* state["errors"].append(msg)
append_error(errors, msg) == Append(errors, msg)

\* the message of the error a stage function records in the state
ErrorMessage(fn, ctx) ==
  CASE fn = "researcher_agent" -> "Researcher agent error"
    [] fn = "xdp_agent" ->
         IF ctx.module_structure = None THEN "Module structure not available"
                                        ELSE "XDP agent error"
    [] ~ctx.user_input.fields_present -> "Missing required fields"
    [] ctx.user_input.learner_level \notin { "basic", "intermediate", "advanced" } ->
         "Invalid learner level"
    [] OTHER -> "Number of modules must be greater than 0"

\* the statements a call executes, in order: what the opaque part does (ch)
\* and the state decide the path through the function
Statements(fn, ch, ctx) ==
  CASE fn = "collect_user_input" ->
         IF ~ctx.user_input.fields_present
           THEN << "set_failed", "append_error" >>
         ELSE IF \/ ctx.user_input.learner_level \notin { "basic", "intermediate", "advanced" }
                 \/ ctx.user_input.number_of_modules <= 0
           THEN << "append_error" >>
         ELSE << "set_step" >>
    [] fn = "researcher_agent" ->
         CASE ch = "ok" ->
                << "log_progress", "set_output", "set_step", "save", "log_complete" >>
           [] ch = "late_fail" ->
                << "log_progress", "set_output", "set_step", "save",
                   "append_error", "set_failed" >>
           [] OTHER -> << "log_progress", "append_error", "set_failed" >>
    [] OTHER ->
         IF ctx.module_structure = None THEN << "append_error", "log_error" >>
         ELSE CASE ch = "ok" ->
                     << "log_progress", "set_output", "save", "log_complete", "set_step" >>
                [] ch = "late_fail" ->
                     << "log_progress", "set_output", "append_error", "set_failed" >>
                [] OTHER -> << "log_progress", "append_error", "set_failed" >>

\* one statement of a stage function, on w = [ctx, files, plog]
Statement(fn, op, w) ==
  CASE op = "log_progress" -> [ w EXCEPT !.plog = log_node_progress(@, fn) ]
    [] op = "log_complete" -> [ w EXCEPT !.plog = log_node_complete(@, fn, "") ]
    [] op = "log_error" ->
         [ w EXCEPT !.plog = log_node_error(@, fn, ErrorMessage(fn, w.ctx)) ]
    [] op = "set_output" -> [ w EXCEPT !.ctx[OutputField(fn)] = OutputValue(fn) ]
    [] op = "set_step" -> [ w EXCEPT !.ctx.current_step = CompletionMarker(fn) ]
    [] op = "set_failed" -> [ w EXCEPT !.ctx.current_step = FailureMarker(fn) ]
    [] op = "save" ->
         [ w EXCEPT !.files = save_step_result(@, OutputField(fn), OutputValue(fn),
                                               TidOf(w.ctx)) ]
    [] OTHER ->
         [ w EXCEPT !.ctx.errors = append_error(@, ErrorMessage(fn, w.ctx)) ]

Stores(r) == [ ctx |-> r.ctx, files |-> r.files, plog |-> r.plog ]

\* the states and stores a stage leaves for the next one
After(stage, ws) ==
  { Stores(StageFn(stage, w, ch)) : w \in ws, ch \in ChoicesOf(stage) \ { "raise" } }

Approved(gate, ws) ==
  { [ w EXCEPT !.ctx = MergeFeedback(@, gate, "approve") ] : w \in ws }

\* what the pipeline hands to a stage function
StageInputs(fn) ==
  LET start == { [ ctx |-> initialize_state(u, EngineThread),
                   files |-> [ n \in {} |-> NoRecord ], plog |-> << >> ] :
                 u \in UserInputs }
      collected == After("collect_user_input", start)
      researched == After("researcher_agent", collected)
      reviewed == Approved("structure",
                    After("human_review_structure",
                          After("module_structure_agent", researched)))
  IN CASE fn = "collect_user_input" -> start
       [] fn = "researcher_agent"   -> collected
       [] OTHER                     -> reviewed

\* the stage function is called
StageCall(fn, ch, w) ==
  /\ exec.pc = "idle"
  /\ exec' = [ fn |-> fn, ch |-> ch, pc |-> "running",
               todo |-> Statements(fn, ch, w.ctx), w |-> w, entry |-> w ]
  /\ UNCHANGED << managerVars, storeVars, engineVars, saver, reader, lock >>

\* its next statement is executed
StageStatement ==
  /\ exec.pc = "running" /\ exec.todo # << >>
  /\ exec' = [ exec EXCEPT !.w = Statement(exec.fn, Head(exec.todo), @),
                           !.todo = Tail(@) ]
  /\ UNCHANGED << managerVars, storeVars, engineVars, saver, reader, lock >>

\* return state
StageReturn ==
  /\ exec.pc = "running" /\ exec.todo = << >>
  /\ exec' = [ exec EXCEPT !.pc = "returned" ]
  /\ UNCHANGED << managerVars, storeVars, engineVars, saver, reader, lock >>

\* the caller takes the result
StageDone ==
  /\ exec.pc = "returned"
  /\ exec' = NoExec
  /\ UNCHANGED << managerVars, storeVars, engineVars, saver, reader, lock >>

StageNext ==
  \/ \E fn \in StageFunctions, ch \in { "ok", "fail", "late_fail" } :
       \E w \in StageInputs(fn) : StageCall(fn, ch, w)
  \/ StageStatement
  \/ StageReturn
  \/ StageDone

StageSpec == Init /\ [][StageNext]_vars

\* executed statement by statement, a stage function returns what the
\* engine's call of it returns
StatementsAgreeWithStageFn ==
  exec.pc = "returned" =>
    exec.w = Stores(StageFn(exec.fn, exec.entry, exec.ch))

(***************************************************************************)
(* Properties of the conversation manager (Spec, FairSpec)                 *)
(***************************************************************************)
\* the work items of a session that are queued or executing
ActiveWorkers(u) ==
  { f \in 1..Len(futures) : futures[f].session_id = u /\ futures[f].state # "done" }

\* the work items ever submitted for a session
WorkersOf(u) == { f \in 1..Len(futures) : futures[f].session_id = u }

\* the types of the messages an actor appended to a session, in order
TypesBy(u, by) ==
  LET M == SelectSeq(session[u].messages, LAMBDA m : m.by = by)
  IN [ k \in 1..Len(M) |-> M[k].type ]

\* the events an actor logged for a session, in order
EventsBy(u, by) ==
  LET E == SelectSeq(ilog[u], LAMBDA e : e.by = by)
  IN [ k \in 1..Len(E) |-> E[k].event_type ]

\* the fields of a session other than its messages
FieldsOf(s) ==
  << s.status, s.course_config, s.workflow_summary, s.last_error, s.workflow_future >>

\* C1: in every reachable state every session has at most one _runner
\* queued or executing in the worker pool
C1_AtMostOneActiveWorker ==
  \A u \in Uuids : Cardinality(ActiveWorkers(u)) <= 1

\* request i was a generate_course submit with a course_config that read
\* the status running_workflow at line 158, and has returned
SubmitWhileRunning(i) ==
  /\ req[i].pc = "done"
  /\ req[i].action = "generate_course"
  /\ req[i].course_config # None
  /\ req[i].seen_status = "running_workflow"

Conflict(i) == req[i].pc = "done" /\ req[i].response = 409

\* C3 as stated: a submit rejected as a conflict has added nothing to the
\* session's messages nor to the interaction log
C3_ConflictChangesNothing ==
  \A i \in RequestIds :
    Conflict(i) =>
      /\ TypesBy(req[i].session_id, ByRequest(i)) = << >>
      /\ EventsBy(req[i].session_id, ByRequest(i)) = << >>

\* a step of request i on the way to a rejection: the message is recorded,
\* routed, and the prior future is found unfinished
RejectionStep(i) ==
  /\ req'[i] # req[i]
  /\ \/ req'[i].pc \in { "route", "check_future" }
     \/ req'[i].pc = "done" /\ req'[i].response = 409

\* C3 as the code has it: a submit rejected as a conflict has appended its
\* user message and the launch notice and logged one user_message event; it
\* has left status, course_config, workflow_summary, last_error and
\* workflow_future of every session and the work items as they were, and
\* has logged no workflow_started
C3_ConflictKeepsFieldsButRecordsMessage ==
  /\ [](\A i \in RequestIds :
          Conflict(i) =>
            /\ TypesBy(req[i].session_id, ByRequest(i))
                 = << "generate_course", "workflow_launch" >>
            /\ EventsBy(req[i].session_id, ByRequest(i)) = << "user_message" >>
            /\ req[i].future = 0)
  /\ [][\A i \in RequestIds :
          RejectionStep(i) =>
            /\ \A u \in Uuids : FieldsOf(session'[u]) = FieldsOf(session[u])
            /\ futures' = futures]_vars

C3_Witness ==
  \E i \in RequestIds :
    /\ Conflict(i)
    /\ session[req[i].session_id].status \in { "completed", "error" }

\* C5: a worker whose run stopped at a review gate leaves the status
\* running_workflow, and the status completed stems from a run that
\* reached END
C5_PausedRunStaysRunning ==
  \A u \in Uuids :
    /\ \A f \in WorkersOf(u) :
         /\ WorkersOf(u) = {f}
         /\ futures[f].state = "done"
         /\ futures[f].outcome = "paused"
         => session[u].status = "running_workflow"
    /\ session[u].status = "completed" =>
         \E f \in WorkersOf(u) : futures[f].outcome = "ended"

\* C6 as stated: once the status of a session is completed or error it
\* never changes again
C6_TerminalStatusIsFinal ==
  [][\A u \in Uuids :
       session[u].status \in { "completed", "error" } =>
         session'[u].status = session[u].status]_vars

\* a request marks the session running (lines 100-101)
MarkedRunning(u) ==
  \E i \in RequestIds :
    /\ req[i].session_id = u
    /\ req[i].pc = "set_running" /\ req'[i].pc = "submit"

\* a worker of the session moves on in _runner
WorkerStepped(u) ==
  \E f \in WorkersOf(u) :
    futures[f].state = "running" /\ futures'[f].pc # futures[f].pc

\* C6 as the code has it: the status never returns to
\* awaiting_requirements; it becomes running_workflow only when a request
\* passes the check of the prior future, from any status, and completed or
\* error only by a worker of the session
C6_StatusNeverReturnsToAwaiting ==
  [][\A u \in Uuids :
       /\ session[u].status # "awaiting_requirements" =>
            session'[u].status # "awaiting_requirements"
       /\ session'[u].status # session[u].status =>
            \/ session'[u].status = "running_workflow" /\ MarkedRunning(u)
            \/ session'[u].status \in { "completed", "error" } /\ WorkerStepped(u)]_vars

\* a session that was in a terminal status is running a workflow again
C6_Witness ==
  \E u \in Uuids :
    /\ session[u].status = "running_workflow"
    /\ \E k \in 1..Len(ilog[u]) :
         /\ ilog[u][k].event_type \in { "workflow_completed", "workflow_failed" }
         /\ \E j \in (k + 1)..Len(ilog[u]) : ilog[u][j].event_type = "workflow_started"

\* the run of work item f raised
RunRaised(f) == f <= Len(futures) /\ futures[f].outcome = "raised"

\* work item f is in the exception handler of _runner
InHandler(f) ==
  f <= Len(futures) /\ futures[f].pc \in { "except", "except_error", "except_notify" }

SessionOf(f) == session[futures[f].session_id]

\* what work item f does once its run has raised: it sets the status error,
\* then last_error, and is done only after it has passed the handler
HandlerSteps(f) ==
  /\ futures[f].pc = "except" /\ futures'[f].pc # "except" =>
       session'[futures[f].session_id].status = "error"
  /\ futures[f].pc = "except_error" /\ futures'[f].pc # "except_error" =>
       session'[futures[f].session_id].last_error = "Exception"
  /\ futures[f].state # "done" /\ futures'[f].state = "done" =>
       futures[f].pc = "except_notify"

\* C7: when an exception escapes the run of a worker, the worker sets the
\* status of the session to error and last_error to the description of the
\* exception, it does not stay in the handler, and it neither sets the
\* status completed nor reports completion
C7_EscapedExceptionBecomesError ==
  /\ [](\A f \in FutureIds :
          RunRaised(f) =>
            /\ futures[f].pc \notin { "complete", "notify" }
            /\ TypesBy(futures[f].session_id, ByWorker(f)) \in { << >>, << "error" >> })
  /\ [][\A f \in FutureIds : RunRaised(f)' => HandlerSteps(f)]_vars
  /\ <>[](\A f \in FutureIds : ~InHandler(f))

C7_Witness ==
  \E f \in FutureIds :
    /\ RunRaised(f)
    /\ futures[f].state = "done"
    /\ SessionOf(f).status = "error"
    /\ SessionOf(f).last_error = "Exception"

\* C8: every submitted _runner ends with its future done, no exception
\* leaves _runner, and no more than workflow_workers of them execute at once
C8_RunnerAlwaysTerminates ==
  /\ [](\A f \in FutureIds : f <= Len(futures) => ~futures[f].escaped)
  /\ [](Cardinality(Running) <= workflow_workers)
  /\ <>[](\A f \in 1..Len(futures) : futures[f].state = "done")

\* a worker whose run failed is done while a worker of another session runs
C8_Witness ==
  \E f, g \in 1..Len(futures) :
    /\ futures[f].state = "done" /\ futures[f].exc # None
    /\ futures[g].session_id # futures[f].session_id
    /\ futures[g].state = "running"

\* C9: a worker that has finished has appended exactly one notice to its
\* session: workflow_complete when the run returned, error when it raised
C9_ExactlyOneNotice ==
  \A f \in 1..Len(futures) :
    futures[f].state = "done" =>
      TypesBy(futures[f].session_id, ByWorker(f))
        = IF futures[f].outcome = "raised" THEN << "error" >>
                                           ELSE << "workflow_complete" >>

\* request i was a generate_course submit without a course_config on an
\* existing session, and has returned
SubmitWithoutConfig(i) ==
  /\ req[i].pc = "done"
  /\ req[i].action = "generate_course"
  /\ req[i].course_config = None
  /\ req[i].response # 404

\* C10: a generate_course submit without course_config is answered with the
\* validation error (400); it submits no worker, logs no workflow_started
\* and its rejection leaves the sessions, the work items and the log alone
C10_MissingConfigIsRejected ==
  /\ [](\A i \in RequestIds :
          SubmitWithoutConfig(i) =>
            /\ req[i].response = 400
            /\ req[i].future = 0
            /\ EventsBy(req[i].session_id, ByRequest(i)) = << "user_message" >>)
  /\ [][\A i \in RequestIds :
          req[i].pc = "route" /\ req'[i].response = 400 =>
            UNCHANGED << session, futures, ilog >>]_vars

C10_Witness ==
  \E i \in RequestIds :
    /\ SubmitWithoutConfig(i)
    /\ req[i].response = 400
    /\ session[req[i].session_id].status = "awaiting_requirements"

(***************************************************************************)
(* Properties of the engine and the run loop (EngineSpec)                  *)
(***************************************************************************)
\* the run is paused at gate g: its interrupt record is there, no feedback
PausedAt(g) ==
  /\ FileName(EngineThread, "interrupt_" \o g) \in DOMAIN files
  /\ FileName(EngineThread, "feedback_" \o g) \notin DOMAIN files

NoPendingInterrupt ==
  /\ ckpt[EngineThread].interrupt = "none"
  /\ \A g \in Gates : ~Exists(files, "interrupt_" \o g, EngineThread)

\* no feedback record of the run is in the store
NoNewFeedback == \A g \in Gates : ~Exists(files, "feedback_" \o g, EngineThread)

\* a step of a call of resume_after_interrupt whose stream has not yielded
\* an item so far: the call, the first item of its stream, the return
ResumeActs ==
  /\ call' # call
  /\ "resume_after_interrupt" \in { call.kind, call'.kind }
  /\ call.gen \in { "fresh", "ended" }

StageEntry(pl, k) == pl[k].step # "workflow"

\* every completed or error entry of a stage comes after a started entry of
\* that stage
StartedPrecedesCompleted(pl) ==
  \A k \in 1..Len(pl) :
    StageEntry(pl, k) /\ pl[k].status \in { "completed", "error" } =>
      \E j \in 1..(k - 1) : pl[j].step = pl[k].step /\ pl[j].status = "started"

\* where the log passes from one stage to another, the stage it leaves has
\* a completed entry already
NextStageAfterCompleted(pl) ==
  \A k \in 1..(Len(pl) - 1) :
    StageEntry(pl, k) /\ StageEntry(pl, k + 1) /\ pl[k + 1].step # pl[k].step =>
      \E j \in 1..k : pl[j].step = pl[k].step /\ pl[j].status = "completed"

\* C13: the Progress Log of a run is in stage-execution order: the started
\* entry of a stage execution precedes its completed or error entry, and no
\* entry of the next stage precedes the completed entry of a stage
C13_ProgressLogInStageOrder ==
  /\ StartedPrecedesCompleted(plog[EngineThread])
  /\ NextStageAfterCompleted(plog[EngineThread])

\* the gate a poll of the store should report as awaiting feedback: the
\* latest gate of the pipeline with an interrupt record and no feedback
\* record, or "none"
AwaitingFeedback(fs, thread_id) ==
  LET open == { g \in Gates : /\ Exists(fs, "interrupt_" \o g, thread_id)
                               /\ ~Exists(fs, "feedback_" \o g, thread_id) }
  IN IF open = {} THEN "none"
     ELSE CHOOSE g \in open :
            \A h \in open : StageIndex(GateStage(h)) <= StageIndex(GateStage(g))

\* C20: the active gate derived from the store is the latest gate with an
\* interrupt record and no feedback record; a gate whose feedback record
\* has been deposited is not reported as awaiting feedback
C20_ActiveGateHasNoFeedback ==
  ActiveType(files, EngineThread) = AwaitingFeedback(files, EngineThread)

(***************************************************************************)
(* Properties of the artifact store (StoreSpec)                            *)
(***************************************************************************)
\* the record a read of key k = <<thread id, step name>> should return: the
\* one of the most recent save since the run was cleared, or absence
LatestSaved(k) ==
  LET h == saver.saved[k] IN
  IF h = << >> THEN NoRecord
  ELSE [ step_name |-> k[2], thread_id |-> k[1], data |-> h[Len(h)] ]

\* C14: last-write-wins: get_latest_result returns the record of the most
\* recent save_step_result for the (thread id, step name), or None when none
\* was saved or the run was cleared; no earlier value is returned
C14_LastWriteWins ==
  /\ \A k \in StoreKeys : get_latest_result(files, k[2], k[1]) = LatestSaved(k)
  /\ saver.op.name = "get_latest_result" =>
       saver.op.result = LatestSaved(<< saver.op.thread_id, saver.op.step_name >>)

\* a key saved twice with different data is read, and the later data is
\* returned
C14_Witness ==
  LET k == << saver.op.thread_id, saver.op.step_name >> IN
  /\ saver.op.name = "get_latest_result"
  /\ Len(saver.saved[k]) = MaxSaves
  /\ saver.saved[k][1] # saver.saved[k][MaxSaves]
  /\ saver.op.result.data = saver.saved[k][MaxSaves]

\* the call just made wrote to or cleared the store for thread id r
StoreWrite(r) ==
  /\ saver' # saver
  /\ saver'.op.thread_id = r
  /\ saver'.op.name \in { "save_step_result", "save_interrupt_state", "clear_previous_run" }

\* C15: no save_step_result, save_interrupt_state or clear_previous_run for
\* a run id r1 changes what get_latest_result returns for any step of
\* another run id r2
C15_RunsDoNotInterfere ==
  [][\A r1, r2 \in StoreThreads :
       r1 # r2 /\ StoreWrite(r1) =>
         \A n \in StepNames :
           get_latest_result(files', n, r2) = get_latest_result(files, n, r2)]_vars

\* the run of one thread id was cleared while the other's artifact and
\* interrupt record are in the store
C15_Witness ==
  \E r1, r2 \in StoreThreads :
    /\ r1 # r2
    /\ saver.op.name = "clear_previous_run" /\ saver.op.thread_id = r1
    /\ Exists(files, "quizzes", r2) /\ Exists(files, "interrupt_quizzes", r2)

(***************************************************************************)
(* Properties of the read endpoints, over ApiSpec.                         *)
(***************************************************************************)

\* a request of the API enters the manager in this step
PostEnters(i) == req[i].pc = "idle" /\ req'[i].pc # "idle"

ReadEnters == reader.pc = "idle" /\ reader'.pc # "idle"

\* C11: get session, post message, get progress and get artifacts on a
\* session_id that is not in the registry fail with KeyError, answered as
\* 404, and change nothing of the sessions, the workers or the store
C11_UnknownSessionIsNotFound ==
  [][/\ \A i \in RequestIds :
          PostEnters(i) /\ req'[i].session_id \notin sessions =>
            /\ req'[i].pc = "done" /\ req'[i].response = 404
            /\ UNCHANGED << sessions, session, ilog, futures, storeVars >>
     /\ ReadEnters /\ reader'.session_id \notin sessions =>
          /\ reader'.response = 404 /\ reader'.body = NoRead.body
          /\ UNCHANGED << sessions, session, ilog, futures, storeVars >>]_vars

\* with one session registered, a message was posted to an id that is not
\* registered and a read of that id is being answered
C11_Witness ==
  /\ sessions # {}
  /\ \E i \in RequestIds :
       /\ req[i].pc = "done" /\ req[i].response = 404
       /\ req[i].session_id \notin sessions
  /\ reader.pc = "responding" /\ reader.response = 404
  /\ reader.session_id \notin sessions

\* C16: any two distinct sessions of the registry have different thread
\* ids
C16_DistinctSessionsDistinctThreads ==
  \A u, v \in sessions : u # v => ThreadIdOf(u) # ThreadIdOf(v)

\* the stage that saves the artifact of a well-known key
ProducedBy(key) ==
  CASE key = "module_structure" -> "module_structure_agent"
    [] key = "xdp_content"      -> "xdp_agent"
    [] key = "course_content"   -> "course_content_agent"
    [] key = "quizzes"          -> "quiz_curator_agent"
    [] OTHER                    -> "finalize_course"

OutputsAfter(gate) ==
  { k \in ArtifactKeys : StageIndex(ProducedBy(k)) > StageIndex(GateStage(gate)) }

\* get_artifacts of a registered session is answered in this step
ArtifactsRead(sid) ==
  /\ ReadEnters
  /\ reader'.op = "get_artifacts" /\ reader'.session_id = sid
  /\ reader'.response = 200

\* the run of the thread id halted at the gate and no feedback was deposited
PausedAtGate(thread_id, gate) ==
  /\ ckpt[thread_id].exists /\ ckpt[thread_id].interrupt = gate
  /\ AwaitingFeedback(files, thread_id) = gate

\* C17: while the run of a session is paused at a review gate,
\* get_artifacts of the session returns the interrupt record of that gate
\* and no output of a stage after the gate
C17_PausedArtifactsShowInterrupt ==
  [][\A sid \in SessionIds, g \in Gates :
       ArtifactsRead(sid) /\ PausedAtGate(ThreadIdOf(sid), g) =>
         /\ ("interrupt_" \o g) \in DOMAIN reader'.body
         /\ DOMAIN reader'.body \cap OutputsAfter(g) = {}]_vars

\* get_progress of a registered session is answered in this step
ProgressRead(sid) ==
  /\ ReadEnters
  /\ reader'.op = "get_progress" /\ reader'.session_id = sid
  /\ reader'.response = 200

CompletedEntries(pl) == { k \in 1..Len(pl) : pl[k].status = "completed" }

\* C18: get_progress changes no session field, log or artifact; it returns
\* the entries of the session's progress log in order, their number, the
\* number of entries with status completed (at most the number of entries)
\* and the final entry, or the empty result with no last step when there
\* is no log
C18_GetProgressIsPureRead ==
  [][\A sid \in SessionIds :
       ProgressRead(sid) =>
         LET pl == plog[ThreadIdOf(sid)]
             body == reader'.body
         IN /\ UNCHANGED << managerVars, storeVars >>
            /\ body.steps = pl
            /\ body.total_steps = Len(pl)
            /\ body.completed_steps = Cardinality(CompletedEntries(pl))
            /\ body.completed_steps <= body.total_steps
            /\ body.last_step = IF pl = << >> THEN << >> ELSE << pl[Len(pl)] >>]_vars

\* a progress read is being answered for a log with completed entries and
\* entries of another status
C18_Witness ==
  /\ reader.pc = "responding" /\ reader.op = "get_progress"
  /\ reader.response = 200
  /\ reader.body.completed_steps > 0
  /\ reader.body.completed_steps < reader.body.total_steps
  /\ reader.body.last_step # << >>

\* the run of a worker of the session failed and the session reports it
FailedRun(sid, f) ==
  /\ session[sid].status = "error"
  /\ futures[f].session_id = sid /\ futures[f].outcome = "raised"

IsPrefix(p, q) == Len(p) <= Len(q) /\ SubSeq(q, 1, Len(p)) = p

\* C19: once the status of a session is error after its run failed, every
\* artifact and every progress entry the stages of the run had written
\* before the failure is returned by get_artifacts and get_progress
C19_PartialResultsAfterFailure ==
  [][\A sid \in SessionIds, f \in FutureIds :
       f \in DOMAIN futures /\ FailedRun(sid, f) =>
         /\ ArtifactsRead(sid) => futures[f].saved \subseteq DOMAIN reader'.body
         /\ ProgressRead(sid) => IsPrefix(futures[f].logged, reader'.body.steps)]_vars

(***************************************************************************)
(* Properties of the manager's lock, over LockSpec.                        *)
(***************************************************************************)
\* the thread inserts into or looks up the collection in this step
AccessesSessions(t) ==
  /\ lock.thread[t].pc \in { "insert", "lookup" }
  /\ lock'.thread[t].pc # lock.thread[t].pc

\* C21: every insert into and every lookup of the session collection is
\* performed by a thread that holds the manager's lock
C21_SessionsAccessedUnderLock ==
  [][\A t \in LockThreads : AccessesSessions(t) => lock.holder = t]_vars

(***************************************************************************)
(* Properties of the stage functions, over StageSpec.                      *)
(***************************************************************************)
\* a statement of the stage function is executed in this step
Executes == exec.pc = "running" /\ exec'.pc = "running" /\ exec'.todo # exec.todo

Returns == exec.pc = "returned"

ErrorsAdded == Len(exec.w.ctx.errors) > Len(exec.entry.ctx.errors)

\* C22: the errors list is append-only: no statement of collect_user_input,
\* researcher_agent or xdp_agent clears or reorders it, and on return the
\* list the function was called with is a prefix of the list it returns
C22_ErrorsAppendOnly ==
  [][/\ Executes => IsPrefix(exec.w.ctx.errors, exec'.w.ctx.errors)
     /\ exec'.pc = "returned" =>
          IsPrefix(exec'.entry.ctx.errors, exec'.w.ctx.errors)]_vars

\* a stage function called with errors already recorded has returned with
\* one more
C22_Witness ==
  /\ Returns
  /\ exec.entry.ctx.errors # << >>
  /\ ErrorsAdded

\* C23: the stage function has set current_step to its completion marker
\* before it persists its output artifact and before it writes its
\* completed entry to the progress log
C23_StepSetBeforeSideEffects ==
  [][Executes /\ Head(exec.todo) \in { "save", "log_complete" } =>
       exec.w.ctx.current_step = CompletionMarker(exec.fn)]_vars

\* C24: a stage function that appended to errors returns with current_step
\* at its failure marker
C24_ErrorMeansFailureMarker ==
  Returns /\ ErrorsAdded => exec.w.ctx.current_step = FailureMarker(exec.fn)

\* C29: a stage function that returns with its failure marker leaves its
\* output field as it was on entry
C29_FailureLeavesOutputUnchanged ==
  /\ Returns
  /\ exec.fn \in { "researcher_agent", "xdp_agent" }
  /\ exec.w.ctx.current_step = FailureMarker(exec.fn)
  => exec.w.ctx[OutputField(exec.fn)] = exec.entry.ctx[OutputField(exec.fn)]

(***************************************************************************)
(* Properties of the run loop's progress entries, over EngineSpec.         *)
(***************************************************************************)
WorkflowEntry(e, status) == e.step = "workflow" /\ e.status = status

\* the entries of the log written since the call that wrote entry k began
RunOf(pl, k) ==
  LET starts == { i \in 1..k : WorkflowEntry(pl[i], "started") }
  IN IF starts = {} THEN 1..k
     ELSE { i \in 1..k : \A j \in starts : j <= i }

\* the finalization stage was executed in the run that wrote entry k
FinalizedBefore(pl, k) == \E i \in RunOf(pl, k) : pl[i].step = "finalize_course"

\* C25: the final workflow/completed entry of run_course_builder records
\* reached_end = True only if the finalization stage executed in that run,
\* and reached_end = False when the stream ended before finalization
C25_ReachedEndOnlyAfterFinalization ==
  LET pl == plog[EngineThread]
  IN \A k \in 1..Len(pl) :
       WorkflowEntry(pl[k], "completed") =>
         /\ pl[k].details = "reached_end_true" => FinalizedBefore(pl, k)
         /\ pl[k].details = "reached_end_false" => ~FinalizedBefore(pl, k)

CountEntries(pl, status) ==
  Cardinality({ k \in 1..Len(pl) : WorkflowEntry(pl[k], status) })

InRun == call.kind = "run_course_builder"

\* the call of run_course_builder returns normally in this step
RunReturns == call.pc # "returned" /\ call'.pc = "returned"

\* a step of the loop of run_course_builder (the reviewer's deposits are
\* steps of another process)
RunStep == InRun /\ InRun' /\ budget'.deposits = budget.deposits

\* what is left for the loop to do: the feedback records the reviewer has
\* deposited or may still deposit, then the stages up to END, then the
\* position within the handling of one streamed item
Remaining ==
  LET feedback == (MaxDeposits - budget.deposits)
                  + Cardinality({ g \in Gates : Exists(files, "feedback_" \o g, EngineThread) })
      stages == END - ckpt[EngineThread].next
      position == CASE call.pc \in { "returned", "raised" } -> 0
                    [] call.pc = "restream" -> 1
                    [] call.gen = "interrupting" -> 2
                    [] OTHER -> 3
  IN (feedback * (END + 1) + stages) * 4 + position

\* the loop of the call can take its next item, and taking it changes the
\* call's locals or the stores
LoopAdvances == RcbStep(CallLocals, "ok") # CallLocals

\* C26: a call of run_course_builder terminates when the reviewer's
\* feedback is finite: until it has returned or raised its loop can take a
\* step, and every step reduces what remains to be done.  The call writes one workflow/started entry, as its first entry,
\* and when it returns normally one workflow/completed entry, as its last
\* entry; a call that raises writes no workflow/completed entry
C26_RunTerminatesWithOneStartOneCompleted ==
  /\ [](InRun /\ ~RcbDone(CallLocals) => LoopAdvances)
  /\ [][LET pl == plog[EngineThread]
            pl2 == plog'[EngineThread]
        IN /\ ~InRun /\ InRun' =>
                pl2 = Append(pl, Entry("workflow", "started", ""))
           /\ InRun /\ InRun' =>
                /\ CountEntries(pl2, "started") = CountEntries(pl, "started")
                /\ CountEntries(pl2, "completed") =
                     CountEntries(pl, "completed") + (IF RunReturns THEN 1 ELSE 0)
                /\ RunReturns => WorkflowEntry(pl2[Len(pl2)], "completed")
           /\ RunStep => Remaining' < Remaining]_vars

\* a call went through the three gates, each approved, executed the
\* finalization stage and returned
C26_Witness ==
  LET pl == plog[EngineThread]
  IN /\ InRun /\ call.pc = "returned"
     /\ pl # << >> /\ FinalizedBefore(pl, Len(pl))
     /\ WorkflowEntry(pl[Len(pl)], "completed")

\* the loop of run_course_builder handled the update of a stage in this
\* step and ended its entries for it with an error entry
LoopLogsError ==
  LET pl2 == plog'[EngineThread]
  IN /\ InRun /\ InRun' /\ call'.item # "none"
     /\ Len(pl2) > Len(plog[EngineThread])
     /\ pl2[Len(pl2)].step = call'.item /\ pl2[Len(pl2)].status = "error"

\* C30: the run loop writes an error entry for a stage only if that stage
\* appended an error during that execution
C30_LoopErrorOnlyForFailingStage ==
  [][LoopLogsError =>
       Len(ckpt'[EngineThread].ctx.errors) > Len(ckpt[EngineThread].ctx.errors)]_vars

(***************************************************************************)
(* Properties of the interaction log and of the error fields, over Spec.   *)
(***************************************************************************)
EventsAt(log, types) == { k \in 1..Len(log) : log[k].event_type \in types }

StartedAt(log) == EventsAt(log, { "workflow_started" })

FinishedAt(log) == EventsAt(log, { "workflow_completed", "workflow_failed" })

\* session_created comes first; no run is reported finished before it was
\* reported started; between two workflow_started events exactly one
\* workflow_completed or workflow_failed is logged
WellFormedLog(log) ==
  /\ log # << >> => log[1].event_type = "session_created"
  /\ \A k \in FinishedAt(log) :
       Cardinality(StartedAt(log) \cap 1..k) >= Cardinality(FinishedAt(log) \cap 1..k)
  /\ \A a, b \in StartedAt(log) :
       a < b => Cardinality(FinishedAt(log) \cap a..b) >= 1
  /\ \A a, b \in StartedAt(log) :
       a < b /\ StartedAt(log) \cap (a + 1)..(b - 1) = {} =>
         Cardinality(FinishedAt(log) \cap a..b) = 1

\* the request logged workflow_started for the session
LoggedStart(u, i) ==
  \E k \in StartedAt(ilog[u]) : ilog[u][k].by = ByRequest(i)

\* C27: in the interaction log of a session, session_created is the first
\* event, every workflow_completed or workflow_failed follows its
\* workflow_started, each workflow_started is followed by exactly one of
\* them before the next workflow_started, and a submit that is rejected or
\* invalid logs no workflow_started
C27_InteractionLogWellFormed ==
  \A u \in sessions :
    /\ WellFormedLog(ilog[u])
    /\ \A i \in RequestIds :
         LoggedStart(u, i) =>
           /\ req[i].session_id = u /\ req[i].pc \in { "submit", "done" }
           /\ req[i].pc = "done" => req[i].response = 200 /\ req[i].future # 0

\* C28: in every state a reader can observe through to_state, the
\* last_error of a session is set if and only if its status is error
C28_LastErrorIffStatusError ==
  \A u \in sessions :
    LET state == to_state(u, session[u])
    IN state.last_error # None <=> state.status = "error"

=============================================================================
